---- MODULE Spec2Model ----
(***************************************************************************)
(* Flappy Bird (src/flappy.py): the Game object, its birds, pipes,         *)
(* collision detector, score system and the frame loop Game.running_loop.  *)
(*                                                                         *)
(* Units.  Bird.y and Bird.speed are Python floats that only ever take     *)
(* values k * 0.1; they are kept here in TENTHS of a pixel (y = 6000 is    *)
(* 600.0, speed = -90 is -9.0, gravity 9 is 0.9) so that the arithmetic is *)
(* exact.  Everything else (x, rectangles, pipes, milliseconds) is in the  *)
(* program's own integer units.                                            *)
(***************************************************************************)
EXTENDS Integers, Sequences, FiniteSets, TLC

VARIABLES
    running,              \* Game.running
    game_started,         \* Game.game_started
    paused,               \* Game.paused
    current_score,        \* Game.score_system.current_score
    high_score,           \* Game.score_system.high_score
    users_high,           \* db.users: the high score of every account (as saved to users.json,
                          \* unless save_users has raised: pc = "crashed")
    birds,                \* the Bird objects, by identity
    rects,                \* the pygame.Rect objects the birds refer to, by identity
    bird,                 \* Game.bird: which Bird object is the active one
    cd_bird,              \* Game.collision_detector.bird
    cd_pipes,             \* the list Game.collision_detector.pipes refers to
    cd_same,              \* whether that list is the list object Game.pipes refers to
    pipes,                \* Game.pipes
    pipe_timer,           \* pygame.time.get_ticks() - Game.last_pipe_time
    next_pipe_frequency,  \* Game.next_pipe_frequency
    level_2_reached,      \* Game.level_2_reached
    level_3_reached,      \* Game.level_3_reached
    level_4_reached,      \* Game.level_4_reached
    background_color,     \* Game.background_color
    ground_image,         \* Game.ground_image
    pc,                   \* position of running_loop inside one iteration
    frame,                \* what the current loop iteration has done so far
    reported,             \* what display_game_over_screen has shown, if anything
    run,                  \* what has happened since the game was (re)started
    budget,               \* free choices the environment may still make
    horizon               \* the score up to which this run is followed

vars == << running, game_started, paused, current_score, high_score, users_high,
           birds, rects, bird, cd_bird, cd_pipes, cd_same, pipes, pipe_timer,
           next_pipe_frequency, level_2_reached, level_3_reached, level_4_reached, background_color,
           ground_image, pc, frame, reported, run, budget, horizon >>

-----------------------------------------------------------------------------
(* Program constants *)

length == 1940
width == 1200
PIPE_WIDTH == 100
PIPE_HEIGHT == 600
PIPE_GAP == 220
PIPE_SPEED == 7
MinPipeHeight == 100
BirdSize == 60
StartLives == 3
FlapSpeed == -90
Gravity == 9
level_threshold == 300
FreqLo == 2500
FreqHi == 4500
FreqMidLo == 2000
FreqMidHi == 3000
FreqTopLo == 1500
FreqTopHi == 2500
ScoreBand1 == 4000
ScoreBand2 == 10000
\* clock.tick(60): pygame delays each frame to 1000/60 ms, in whole milliseconds
FrameMs == 1000 \div 60

-----------------------------------------------------------------------------
(* Bounds of the model *)

\* By default the player arms the game at once, then keeps the bird hovering
\* (one flap every 21 frames), every pipe is drawn with a passable gap and
\* the shortest interval.  Anything else (a missed flap, a wait, a pause, a
\* window close, another random draw) is a free choice of the environment.
\* Spec follows every run with at most MaxChoices free choices up to the score
\* ShortScore; SpecLong follows every run with at most LongChoices free
\* choices up to the score MaxScore.
\* Free choices are made while current_score is below FreePlayBelow.
MaxChoices == 3
ShortScore == 160
FreePlayBelow == 120
LongChoices == 1
MaxScore == 905
\* Events pygame.event.get() returns at one polling point.
MaxEvents == 1
\* A pipe height whose gap a hovering bird passes through.
PassHeight == 450
\* The high score a logged-in user may already have in users.json.
StoredHigh == 40

-----------------------------------------------------------------------------
(* Objects *)

BirdIds == {"bird", "bird1", "bird2", "bird3"}

\* Position y and speed are in tenths.
Tenths(n) == n * 10

\* int(v) of a float given in tenths: truncation toward zero, as pygame does
\* when a float is assigned to a Rect attribute.
Trunc(t) == IF t >= 0 THEN t \div 10 ELSE -((-t) \div 10)

\* pygame.Rect, integer x, y (top-left), w, h
Rect(x, y, w, h) == [x |-> x, y |-> y, w |-> w, h |-> h]

\* rect.center = (cx, cy) keeps the size and moves the top-left corner
SetCenter(r, cx, cy) == [r EXCEPT !.x = cx - (r.w \div 2), !.y = cy - (r.h \div 2)]

\* Bird.__init__: a 60x60 image rectangle centred on (x, y), speed 0, 3 lives.
\* The bird's own Rect object has the bird's identity.
Bird(id, x, y) ==
    [x |-> x, y |-> Tenths(y), speed |-> 0, lives |-> StartLives, rect |-> id]

BirdRect(x, y) == SetCenter(Rect(0, 0, BirdSize, BirdSize), x, y)

\* a slip in Bird.flap: the impulse is added to the speed
flap_accumulates(b) == [b EXCEPT !.speed = @ + FlapSpeed]

\* Bird.flap
flap(b) == [b EXCEPT !.speed = FlapSpeed]

\* Bird.reduce_life
reduce_life(b) == [b EXCEPT !.lives = @ - 1]

\* a slip in Pipe.generate_pipes: the pipe is placed at mid-screen
NewPipe_mid(h) ==
    [ x      |-> length \div 2,
      width  |-> PIPE_WIDTH,
      height |-> h,
      top    |-> Rect(length \div 2, 0, PIPE_WIDTH, h),
      bottom |-> Rect(length \div 2, h + PIPE_GAP, PIPE_WIDTH, length - PIPE_GAP - h) ]

\* Pipe.__init__ followed by Pipe.generate_pipes, for the drawn height h
NewPipe(h) ==
    [ x      |-> length,
      width  |-> PIPE_WIDTH,
      height |-> h,
      top    |-> Rect(length, 0, PIPE_WIDTH, h),
      bottom |-> Rect(length, h + PIPE_GAP, PIPE_WIDTH, length - PIPE_GAP - h) ]

\* a slip in Pipe.move: the bottom rectangle also slides up
move_squeeze(p) ==
    [p EXCEPT !.x = @ - PIPE_SPEED,
              !.top.x = p.x - PIPE_SPEED,
              !.bottom.x = p.x - PIPE_SPEED,
              !.bottom.y = @ - 1]

\* Pipe.move
move(p) ==
    [p EXCEPT !.x = @ - PIPE_SPEED,
              !.top.x = p.x - PIPE_SPEED,
              !.bottom.x = p.x - PIPE_SPEED]

\* a slip in is_off_screen: a pipe counts as off screen as soon as its left
\* edge has left the screen
is_off_screen_early(p) == p.x < 0

\* Pipe.is_off_screen
is_off_screen(p) == p.x + p.width < 0

\* pygame.Rect.colliderect for rectangles of positive size
colliderect(a, b) ==
    /\ a.x < b.x + b.w
    /\ a.y < b.y + b.h
    /\ a.x + a.w > b.x
    /\ a.y + a.h > b.y

-----------------------------------------------------------------------------
(* The Game object as one record, so that the methods compose as they do   *)
(* in the code.  G is the current object, Commit(g) stores g back.         *)

G ==
    [ running |-> running, game_started |-> game_started, paused |-> paused,
      current_score |-> current_score, high_score |-> high_score,
      users_high |-> users_high, birds |-> birds, rects |-> rects,
      bird |-> bird, cd_bird |-> cd_bird, cd_pipes |-> cd_pipes,
      cd_same |-> cd_same, pipes |-> pipes,
      pipe_timer |-> pipe_timer, next_pipe_frequency |-> next_pipe_frequency,
      level_2_reached |-> level_2_reached, level_3_reached |-> level_3_reached,
      level_4_reached |-> level_4_reached, background_color |-> background_color,
      ground_image |-> ground_image,
      \* not state: what the calls made on g in this step have done
      exited |-> FALSE, swapped |-> FALSE, restarted |-> FALSE ]

Commit(g) ==
    /\ running' = g.running
    /\ game_started' = g.game_started
    /\ paused' = g.paused
    /\ current_score' = g.current_score
    /\ high_score' = g.high_score
    /\ users_high' = g.users_high
    /\ birds' = g.birds
    /\ rects' = g.rects
    /\ bird' = g.bird
    /\ cd_bird' = g.cd_bird
    /\ cd_pipes' = g.cd_pipes
    /\ cd_same' = g.cd_same
    /\ pipes' = g.pipes
    /\ pipe_timer' = g.pipe_timer
    /\ next_pipe_frequency' = g.next_pipe_frequency
    /\ level_2_reached' = g.level_2_reached
    /\ level_3_reached' = g.level_3_reached
    /\ level_4_reached' = g.level_4_reached
    /\ background_color' = g.background_color
    /\ ground_image' = g.ground_image

\* The four Bird objects Game.__init__ and Game.start_new_game create
NewBirds == [id \in BirdIds |-> Bird(id, length \div 2, width \div 2)]
NewRects == [id \in BirdIds |-> BirdRect(length \div 2, width \div 2)]

\* the user who has logged in (username of Game.run)
username == "player"

\* Game.__init__, for the drawn first spawn interval f and the high score h
\* that Game.run copies from the user database before it enters running_loop
NewGame(f, h) ==
    [ running |-> TRUE, game_started |-> FALSE, paused |-> FALSE,
      current_score |-> 0, high_score |-> h,
      users_high |-> [u \in {username} |-> h],
      birds |-> NewBirds, rects |-> NewRects,
      bird |-> "bird", cd_bird |-> "bird", cd_pipes |-> << >>,
      cd_same |-> TRUE, pipes |-> << >>,
      pipe_timer |-> 0, next_pipe_frequency |-> f,
      level_2_reached |-> FALSE, level_3_reached |-> FALSE,
      level_4_reached |-> FALSE, background_color |-> "color1",
      ground_image |-> "iarba",
      exited |-> FALSE, swapped |-> FALSE, restarted |-> FALSE ]

-----------------------------------------------------------------------------
(* Score *)

\* a slip in Score.increment: two points per surviving tick
increment_twice(score) == score + 2

\* Score.increment
increment(score) == score + 1

\* a slip in UserDatabase.update_high_score: the score is written without
\* comparing it with the stored one
db_update_always(g, user, new_score) ==
    IF user \in DOMAIN g.users_high
    THEN [g EXCEPT !.users_high[user] = new_score]
    ELSE g

\* UserDatabase.update_high_score
db_update_high_score(g, user, new_score) ==
    IF user \in DOMAIN g.users_high
    THEN IF new_score > g.users_high[user]
         THEN [g EXCEPT !.users_high[user] = new_score]
         ELSE g
    ELSE g

\* whether UserDatabase.update_high_score reaches self.save_users()
db_saves(g, user, new_score) ==
    user \in DOMAIN g.users_high /\ new_score > g.users_high[user]

\* UserDatabase.get_high_score
db_get_high_score(g, user) ==
    IF user \in DOMAIN g.users_high THEN g.users_high[user] ELSE 0

\* UserDatabase.create_account: a new User with a new Score (high score 0),
\* unless the name is taken
db_create_account(g, user) ==
    IF user \in DOMAIN g.users_high
    THEN g
    ELSE [g EXCEPT !.users_high =
              [u \in DOMAIN g.users_high \cup {user} |->
                   IF u = user THEN 0 ELSE g.users_high[u]]]

\* whether "update the high score if needed" of running_loop writes users.json
persist_saves(g) ==
    g.current_score > g.high_score /\ db_saves(g, username, g.current_score)

\* a slip in running_loop: the store is offered the score before this tick's
\* increment
persist_high_score_behind(g) ==
    IF g.current_score > g.high_score
    THEN db_update_high_score(g, username, g.current_score - 1)
    ELSE g

\* running_loop, "update the high score if needed"
persist_high_score(g) ==
    IF g.current_score > g.high_score
    THEN db_update_high_score(g, username, g.current_score)
    ELSE g

-----------------------------------------------------------------------------
(* CollisionDetector *)

\* the "for pipe in self.pipes" loop of detect_collision, carrying its flag
RECURSIVE PipeLoop(_, _, _)
PipeLoop(r, ps, collision_detected) ==
    IF ps = << >>
    THEN collision_detected
    ELSE LET p  == Head(ps)
             d1 == IF colliderect(r, p.top) THEN TRUE ELSE collision_detected
             d2 == IF colliderect(r, p.bottom) THEN TRUE ELSE d1
         IN  PipeLoop(r, Tail(ps), d2)

\* a slip in detect_collision: the bottom boundary compared with >=
detect_collision_inclusive(b, r, ps, screen_height) ==
    \/ PipeLoop(r, ps, FALSE)
    \/ b.y < Tenths(0)
    \/ b.y >= Tenths(screen_height - r.h)

\* CollisionDetector.detect_collision for the detector's bird b, that bird's
\* rectangle r, the detector's pipes ps and its screen_height
detect_collision(b, r, ps, screen_height) ==
    LET d0 == PipeLoop(r, ps, FALSE)
        d1 == IF b.y < Tenths(0) THEN TRUE ELSE d0
        d2 == IF b.y > Tenths(screen_height - r.h) THEN TRUE ELSE d1
    IN  d2

\* "self.collision_detector.pipes = self.pipes" of check_collisions
sync_pipes(g) == [g EXCEPT !.cd_pipes = g.pipes, !.cd_same = TRUE]

\* self.pipes.append(p): the detector's list grows too when it is the same
\* list object
append_pipe(g, p) ==
    [g EXCEPT !.pipes = Append(@, p),
              !.cd_pipes = IF g.cd_same THEN Append(@, p) ELSE @]

\* self.pipes.clear(): in place, so it empties the detector's list too when it
\* is the same list object
clear_pipes(g) ==
    [g EXCEPT !.pipes = << >>,
              !.cd_pipes = IF g.cd_same THEN << >> ELSE @]

\* the call self.collision_detector.detect_collision() of check_collisions
Detects(g) ==
    detect_collision(g.birds[g.cd_bird], g.rects[g.birds[g.cd_bird].rect],
                     g.cd_pipes, width)

\* how many of the things detect_collision tests are hit in that call: pipe
\* rectangles the bird's rectangle collides with, plus the boundaries crossed
Touched(g) ==
    LET b == g.birds[g.cd_bird]
        r == g.rects[b.rect]
    IN  Cardinality({ i \in 1..Len(g.cd_pipes) : colliderect(r, g.cd_pipes[i].top) })
        + Cardinality({ i \in 1..Len(g.cd_pipes) : colliderect(r, g.cd_pipes[i].bottom) })
        + (IF b.y < Tenths(0) THEN 1 ELSE 0)
        + (IF b.y > Tenths(width - r.h) THEN 1 ELSE 0)

-----------------------------------------------------------------------------
(* Game methods *)

\* a slip in reset_bird_and_pipes: the bird is not put back to mid-screen
reset_pipes_only(g) ==
    [clear_pipes(g) EXCEPT
              !.birds[g.bird].speed = 0,
              !.game_started = FALSE]

\* a slip in reset_bird_and_pipes: the soft reset also zeroes the score
reset_bird_and_pipes_zero_score(g) ==
    [clear_pipes(g) EXCEPT
              !.birds[g.bird].x = length \div 2,
              !.birds[g.bird].y = Tenths(width \div 2),
              !.birds[g.bird].speed = 0,
              !.game_started = FALSE,
              !.current_score = 0]

\* Game.reset_bird_and_pipes
reset_bird_and_pipes(g) ==
    [clear_pipes(g) EXCEPT
              !.birds[g.bird].x = length \div 2,
              !.birds[g.bird].y = Tenths(width \div 2),
              !.birds[g.bird].speed = 0,
              !.game_started = FALSE]

\* a slip in check_collisions: the test "lives == 0" is left out
check_collisions_no_end(g) ==
    LET s == sync_pipes(g)
    IN  IF Detects(s)
        THEN reset_bird_and_pipes([s EXCEPT !.birds[s.bird] = reduce_life(@)])
        ELSE [s EXCEPT !.current_score = increment(@)]

\* a slip in check_collisions: one life is taken for every rectangle and
\* boundary that is hit
check_collisions_per_hit(g) ==
    LET s == sync_pipes(g)
    IN  IF Detects(s)
        THEN LET g1 == [s EXCEPT !.birds[s.bird].lives =
                                      IF @ > Touched(s) THEN @ - Touched(s) ELSE 0]
             IN  IF g1.birds[g1.bird].lives = 0
                 THEN [g1 EXCEPT !.running = FALSE]
                 ELSE reset_bird_and_pipes(g1)
        ELSE [s EXCEPT !.current_score = increment(@)]

\* Game.check_collisions
check_collisions(g) ==
    LET s == sync_pipes(g)
    IN  IF Detects(s)
        THEN LET g1 == [s EXCEPT !.birds[s.bird] = reduce_life(@)]
             IN  IF g1.birds[g1.bird].lives = 0
                 THEN [g1 EXCEPT !.running = FALSE]
                 ELSE reset_bird_and_pipes(g1)
        ELSE [s EXCEPT !.current_score = increment(@)]

\* the interval Game.generate_pipes rolls for the next spawn: r1, r2, r3 are
\* the values random.randint returns for the three ranges
NextFrequency(score, r1, r2, r3) ==
    IF score > ScoreBand1 THEN r2
    ELSE IF score > ScoreBand2 THEN r3
    ELSE r1

\* a slip in Game.generate_pipes: last_pipe_time is not updated at a spawn
generate_pipes_keeps_timer(g, h, r1, r2, r3) ==
    IF g.pipe_timer > g.next_pipe_frequency
    THEN [append_pipe(g, NewPipe(h)) EXCEPT
                   !.next_pipe_frequency = NextFrequency(g.current_score, r1, r2, r3)]
    ELSE g

\* Game.generate_pipes, for the drawn pipe height h and the drawn intervals
generate_pipes(g, h, r1, r2, r3) ==
    IF g.pipe_timer > g.next_pipe_frequency
    THEN [append_pipe(g, NewPipe(h)) EXCEPT
                   !.pipe_timer = 0,
                   !.next_pipe_frequency = NextFrequency(g.current_score, r1, r2, r3)]
    ELSE g

\* Game.move_pipes: every Pipe object of Game.pipes is moved in place, then
\* Game.pipes is bound to a new list of the pipes still on the screen.  The
\* list the detector refers to is not that new list; it holds the moved Pipe
\* objects, and whatever it held that Game.pipes had dropped before (pipes
\* off the screen) stays as it is.
move_pipes(g) ==
    LET moved == [i \in 1..Len(g.pipes) |-> move(g.pipes[i])]
        valid(p) == ~is_off_screen(p)
    IN  [g EXCEPT !.pipes = SelectSeq(moved, valid),
                  !.cd_pipes = [i \in 1..Len(@) |->
                                   IF is_off_screen(@[i]) THEN @[i] ELSE move(@[i])],
                  !.cd_same = FALSE]

\* Bird.apply_gravity on the active bird
apply_gravity(g) ==
    LET b  == g.birds[g.bird]
        y2 == b.y + b.speed
    IN  [g EXCEPT !.birds[g.bird].y = y2,
                  !.rects[b.rect] = SetCenter(@, b.x, Trunc(y2)),
                  !.birds[g.bird].speed = b.speed + Gravity]

\* a slip in the hand-off: collision_detector.bird is not set to the new bird
hand_off_keeps_detector(g, nb) ==
    LET old == g.birds[g.bird]
    IN  [g EXCEPT !.birds[nb].x = old.x,
                  !.birds[nb].y = old.y,
                  !.birds[nb].rect = old.rect,
                  !.birds[nb].lives = old.lives,
                  !.bird = nb,
                  !.swapped = TRUE]

\* the hand-off of check_level_transition: the bird object nb becomes the
\* active one and takes x, y, rect and lives of the outgoing bird
hand_off(g, nb) ==
    LET old == g.birds[g.bird]
    IN  [g EXCEPT !.birds[nb].x = old.x,
                  !.birds[nb].y = old.y,
                  !.birds[nb].rect = old.rect,
                  !.birds[nb].lives = old.lives,
                  !.bird = nb,
                  !.cd_bird = nb,
                  !.swapped = TRUE]

\* current_lvl of check_level_transition
current_lvl(score) == (score \div level_threshold) % 3

\* a slip in check_level_transition: entering a stage does not clear the
\* flags of the other stages
check_level_transition_sticky(g) ==
    LET lvl == current_lvl(g.current_score)
    IN  IF lvl = 1 /\ ~g.level_2_reached
        THEN hand_off([g EXCEPT !.level_2_reached = TRUE,
                                !.background_color = "color2",
                                !.ground_image = "flori"], "bird2")
        ELSE IF lvl = 2 /\ ~g.level_3_reached
        THEN hand_off([g EXCEPT !.level_3_reached = TRUE,
                                !.background_color = "color3",
                                !.ground_image = "fluturi"], "bird3")
        ELSE IF lvl = 0 /\ ~g.level_4_reached
        THEN hand_off([g EXCEPT !.level_4_reached = TRUE,
                                !.background_color = "color1",
                                !.ground_image = "iarba1"], "bird1")
        ELSE g

\* a slip in check_level_transition: stage 1 is entered without looking at
\* its "reached" flag
check_level_transition_unguarded(g) ==
    LET lvl == current_lvl(g.current_score)
    IN  IF lvl = 1
        THEN hand_off([g EXCEPT !.level_2_reached = TRUE,
                                !.level_3_reached = FALSE,
                                !.level_4_reached = FALSE,
                                !.background_color = "color2",
                                !.ground_image = "flori"], "bird2")
        ELSE IF lvl = 2 /\ ~g.level_3_reached
        THEN hand_off([g EXCEPT !.level_3_reached = TRUE,
                                !.level_2_reached = FALSE,
                                !.level_4_reached = FALSE,
                                !.background_color = "color3",
                                !.ground_image = "fluturi"], "bird3")
        ELSE IF lvl = 0 /\ ~g.level_4_reached
        THEN hand_off([g EXCEPT !.level_4_reached = TRUE,
                                !.level_2_reached = FALSE,
                                !.level_3_reached = FALSE,
                                !.background_color = "color1",
                                !.ground_image = "iarba1"], "bird1")
        ELSE g

\* Game.check_level_transition
check_level_transition(g) ==
    LET lvl == current_lvl(g.current_score)
    IN  IF lvl = 1 /\ ~g.level_2_reached
        THEN hand_off([g EXCEPT !.level_2_reached = TRUE,
                                !.level_3_reached = FALSE,
                                !.level_4_reached = FALSE,
                                !.background_color = "color2",
                                !.ground_image = "flori"], "bird2")
        ELSE IF lvl = 2 /\ ~g.level_3_reached
        THEN hand_off([g EXCEPT !.level_3_reached = TRUE,
                                !.level_2_reached = FALSE,
                                !.level_4_reached = FALSE,
                                !.background_color = "color3",
                                !.ground_image = "fluturi"], "bird3")
        ELSE IF lvl = 0 /\ ~g.level_4_reached
        THEN hand_off([g EXCEPT !.level_4_reached = TRUE,
                                !.level_2_reached = FALSE,
                                !.level_3_reached = FALSE,
                                !.background_color = "color1",
                                !.ground_image = "iarba1"], "bird1")
        ELSE g

\* a slip in start_new_game: the current score is not zeroed
start_new_game_keeps_score(g, f) ==
    [NewGame(f, g.high_score) EXCEPT !.users_high = g.users_high,
                                     !.current_score = g.current_score,
                                     !.restarted = TRUE]

\* Game.start_new_game, for the drawn spawn interval f
start_new_game(g, f) ==
    [NewGame(f, g.high_score) EXCEPT !.users_high = g.users_high,
                                     !.restarted = TRUE]

-----------------------------------------------------------------------------
(* Input handling *)

\* Game.process_input: the "for event in pygame.event.get()" loop over the
\* events evs read at the first polling point of an iteration
RECURSIVE process_input(_, _)
process_input(g, evs) ==
    IF evs = << >>
    THEN g
    ELSE LET e  == Head(evs)
             g1 == IF e = "QUIT" THEN [g EXCEPT !.running = FALSE] ELSE g
             g2 == IF e = "K_r" THEN [g1 EXCEPT !.paused = TRUE] ELSE g1
             g3 == IF e = "K_SPACE"
                   THEN [g2 EXCEPT !.game_started = TRUE,
                                   !.birds[g2.bird] = flap(@)]
                   ELSE g2
         IN  process_input(g3, Tail(evs))

\* running_loop, "if self.paused": the event loop of the pause menu over the
\* events evs read at the second polling point; K_q leaves the program at
\* once (pygame.quit(); sys.exit()), f is the interval start_new_game draws
RECURSIVE paused_events(_, _, _)
paused_events(g, evs, f) ==
    IF evs = << >>
    THEN g
    ELSE LET e == Head(evs)
         IN  IF e = "QUIT"
             THEN paused_events([g EXCEPT !.running = FALSE], Tail(evs), f)
             ELSE IF e = "K_r"
             THEN paused_events([g EXCEPT !.paused = FALSE], Tail(evs), f)
             ELSE IF e = "K_q"
             THEN [g EXCEPT !.exited = TRUE]
             ELSE IF e = "K_n"
             THEN paused_events(start_new_game(g, f), Tail(evs), f)
             ELSE paused_events(g, Tail(evs), f)

-----------------------------------------------------------------------------
(* The environment: player, clock and random source *)

Min(a, b) == IF a < b THEN a ELSE b
Max(a, b) == IF a > b THEN a ELSE b

\* pipe_timer is only ever compared with an interval of at most FreqHi, so
\* it is kept up to FreqHi + 1.
TimerCap == FreqHi + 1
\* An iteration that only waits for the player stands for all the frames of
\* that wait; the wait lasts longer than any spawn interval.
WaitMs == TimerCap

\* clock.tick(60) at the end of an iteration
EndFrame(g, dt) == [g EXCEPT !.pipe_timer = Min(@ + dt, TimerCap)]

\* the test of "while self.running"
LoopTest(g) == IF g.running THEN "level" ELSE "over"

\* a slip in running_loop: the Active block is not guarded by game_started
AfterInput_unguarded(g) == IF g.paused THEN "pause" ELSE "active"

\* where running_loop goes after process_input and the drawing calls:
\* "if self.paused", else "if self.game_started and not self.paused", else
\* the end of the iteration
AfterInput(g) ==
    IF g.paused THEN "pause"
    ELSE IF g.game_started /\ ~g.paused THEN "active"
    ELSE "end"

\* where running_loop goes after the pause menu: out of the program on K_q,
\* else "if self.game_started and not self.paused", else the end of the
\* iteration
AfterPause(g) ==
    IF g.exited THEN "exited"
    ELSE IF g.game_started /\ ~g.paused THEN "active"
    ELSE "end"

\* The hovering player flaps when the bird has fallen back to mid-screen:
\* from a flap at speed -9.0 the bird returns to its height 21 frames later,
\* at speed 9.9.
HoverSpeed == FlapSpeed + 21 * Gravity
FlapWindow(g) ==
    LET b == g.birds[g.bird]
    IN  b.y >= Tenths(width \div 2) /\ b.speed > 0 /\ b.speed <= HoverSpeed

\* the player presses SPACE only to arm the game or in the hovering rhythm
CanFlap(g) == ~g.game_started \/ FlapWindow(g)

EventSeqs(S) == UNION { [1..n -> S] : n \in 0..MaxEvents }

\* what the first polling point reads by default
DefaultPoll1(g) == IF CanFlap(g) /\ ~g.paused THEN << "K_SPACE" >> ELSE << >>

\* whether the environment may make a free choice, with b of them left
Free(g, b) == b > 0 /\ g.current_score < FreePlayBelow

\* the event lists the first polling point may read with b free choices left:
\* the window may be closed at any time, the player uses the keyboard only
\* in the rhythm of the flaps or in the pause menu
Polls1(g, b) ==
    IF Free(g, b)
    THEN EventSeqs({"QUIT"}
                   \cup (IF CanFlap(g) \/ g.paused THEN {"K_r"} ELSE {})
                   \cup (IF CanFlap(g) THEN {"K_SPACE"} ELSE {}))
    ELSE { DefaultPoll1(g) }

\* the event lists the pause menu may read
Polls2 == EventSeqs({"QUIT", "K_r", "K_q", "K_n"})

HasEvent(evs, e) == \E i \in 1..Len(evs) : evs[i] = e

\* the default random draws
DefaultDraw == [h |-> PassHeight, r1 |-> FreqLo, r2 |-> FreqMidLo, r3 |-> FreqTopLo]

\* the random draws of one call of generate_pipes with b free choices left:
\* random.randint(100, PIPE_HEIGHT) for the height, random.randint(2500, 4500)
\* and, by score, random.randint(2000, 3000) for the interval.  Nothing is
\* drawn when the timer has not expired.
Draws(g, b) ==
    IF g.pipe_timer > g.next_pipe_frequency /\ Free(g, b)
    THEN [ h  : {MinPipeHeight, PassHeight, PIPE_HEIGHT},
           r1 : {FreqLo, FreqHi},
           r2 : IF g.current_score > ScoreBand1 THEN {FreqMidLo, FreqMidHi} ELSE {FreqMidLo},
           r3 : {FreqTopLo} ]
    ELSE { DefaultDraw }

\* what open(..., 'w') / json.dump of save_users may do in a tick that writes
\* users.json, with b free choices left: succeed (TRUE) or raise (FALSE)
SaveOutcomes(g, b) == IF persist_saves(g) /\ Free(g, b) THEN {TRUE, FALSE} ELSE {TRUE}

\* a free choice costs one unit of the budget
Cost(choice, default) == IF choice = default THEN 0 ELSE 1

-----------------------------------------------------------------------------
(* running_loop *)

\* frame: active/collided/spawned: the Active block ran, its collision check
\* returned true, it spawned a pipe; swapped: check_level_transition made a
\* hand-off; lvl, prev_lvl: current_lvl at this and at the previous level
\* check; fresh: this is the first level check after Game() or
\* start_new_game; polled: the events the last polling point read; pruned:
\* the pipes move_pipes dropped; save_failed: save_users raised; touched: the
\* rectangles and boundaries hit at the last detect_collision; stale: the
\* detector's list differed from Game.pipes when check_collisions was called
NoFrame ==
    [ active |-> FALSE, collided |-> FALSE, spawned |-> FALSE, swapped |-> FALSE,
      lvl |-> -1, prev_lvl |-> -1, fresh |-> FALSE, restarted |-> FALSE,
      polled |-> << >>, pruned |-> 0, save_failed |-> FALSE, touched |-> 0,
      stale |-> FALSE ]

\* run: hits / survived: Active ticks with / without a collision since the
\* game was (re)started; streak: colliding Active ticks in a row
NewRun == [hits |-> 0, survived |-> 0, streak |-> 0]

NotReported == [shown |-> FALSE, final |-> 0, high |-> 0]

\* Game() followed by Game.run up to the call of running_loop for a user
\* whose stored high score is h
Start(fs, hs) ==
    \E f \in fs, h \in hs :
        LET g == NewGame(f, h)
        IN  /\ running = g.running
            /\ game_started = g.game_started
            /\ paused = g.paused
            /\ current_score = g.current_score
            /\ high_score = g.high_score
            /\ users_high = g.users_high
            /\ birds = g.birds
            /\ rects = g.rects
            /\ bird = g.bird
            /\ cd_bird = g.cd_bird
            /\ cd_pipes = g.cd_pipes
            /\ cd_same = g.cd_same
            /\ pipes = g.pipes
            /\ pipe_timer = g.pipe_timer
            /\ next_pipe_frequency = g.next_pipe_frequency
            /\ level_2_reached = g.level_2_reached
            /\ level_3_reached = g.level_3_reached
            /\ level_4_reached = g.level_4_reached
            /\ background_color = g.background_color
            /\ ground_image = g.ground_image
            /\ pc = "level"
            /\ frame = [NoFrame EXCEPT !.restarted = TRUE]
            /\ reported = NotReported
            /\ run = NewRun

Init ==
    /\ Start({FreqLo, FreqHi}, {0, StoredHigh})
    /\ budget = MaxChoices
    /\ horizon = ShortScore

InitLong ==
    /\ Start({FreqLo}, {StoredHigh})
    /\ budget = LongChoices
    /\ horizon = MaxScore

\* top of the loop body: self.check_level_transition()
CheckLevel ==
    /\ pc = "level"
    /\ current_score < horizon
    /\ LET g == check_level_transition(G)
       IN  /\ Commit(g)
           /\ frame' = [NoFrame EXCEPT !.swapped = g.swapped,
                                       !.lvl = (current_score \div level_threshold) % 3,
                                       !.prev_lvl = frame.lvl,
                                       !.fresh = frame.restarted]
    /\ pc' = "input"
    /\ UNCHANGED << reported, run, budget, horizon >>

\* self.process_input(), then the drawing calls; the iteration ends here when
\* the game is neither paused nor started
ProcessInput ==
    /\ pc = "input"
    /\ \E evs \in Polls1(G, budget) :
        LET g == process_input(G, evs)
        IN  /\ budget' = budget - Cost(evs, DefaultPoll1(G))
            /\ frame' = [frame EXCEPT !.polled = evs]
            /\ IF AfterInput(g) = "end"
               THEN Commit(EndFrame(g, WaitMs)) /\ pc' = LoopTest(g)
               ELSE Commit(g) /\ pc' = AfterInput(g)
    /\ UNCHANGED << reported, run, horizon >>

\* "if self.paused": the pause menu and its event loop
PauseBlock ==
    /\ pc = "pause"
    /\ \E evs \in Polls2 :
       \E f \in (IF HasEvent(evs, "K_n") /\ Free(G, budget) THEN {FreqLo, FreqHi} ELSE {FreqLo}) :
        LET g == paused_events(G, evs, f)
        IN  /\ frame' = [frame EXCEPT !.polled = evs,
                                      !.restarted = g.restarted]
            /\ run' = IF g.restarted THEN NewRun ELSE run
            /\ IF AfterPause(g) = "end"
               THEN Commit(EndFrame(g, WaitMs)) /\ pc' = LoopTest(g)
               ELSE Commit(g) /\ pc' = AfterPause(g)
    /\ UNCHANGED << reported, budget, horizon >>

\* "if self.game_started and not self.paused": spawn, move, collide, gravity,
\* high score; then clock.tick(60).  An exception raised by save_users is
\* caught nowhere: it ends running_loop and the program.
ActiveBlock ==
    /\ pc = "active"
    /\ \E d \in Draws(G, budget) :
        LET g1 == generate_pipes(G, d.h, d.r1, d.r2, d.r3)
            g2 == move_pipes(g1)
            g3 == check_collisions(g2)
            g4 == apply_gravity(g3)
            g5 == persist_high_score(g4)
        IN  \E saved \in SaveOutcomes(g4, budget - Cost(d, DefaultDraw)) :
            /\ frame' = [frame EXCEPT !.active = TRUE,
                                      !.collided = Detects(sync_pipes(g2)),
                                      !.touched = Touched(sync_pipes(g2)),
                                      !.stale = (g2.cd_pipes # g2.pipes),
                                      !.spawned = (Len(g1.pipes) > Len(pipes)),
                                      !.pruned = Len(g1.pipes) - Len(g2.pipes),
                                      !.save_failed = ~saved]
            /\ run' = IF Detects(sync_pipes(g2))
                      THEN [run EXCEPT !.hits = @ + 1, !.streak = @ + 1]
                      ELSE [run EXCEPT !.survived = @ + 1, !.streak = 0]
            /\ budget' = budget - Cost(d, DefaultDraw) - Cost(saved, TRUE)
            /\ IF saved
               THEN Commit(EndFrame(g5, FrameMs)) /\ pc' = LoopTest(g5)
               ELSE Commit(g5) /\ pc' = "crashed"
    /\ UNCHANGED << reported, horizon >>

\* after the loop: display_game_over_screen, pygame.quit(), sys.exit()
GameOver ==
    /\ pc = "over"
    /\ reported' = [shown |-> TRUE, final |-> current_score,
                    high |-> Max(high_score, current_score)]
    /\ pc' = "exited"
    /\ UNCHANGED << running, game_started, paused, current_score, high_score,
                    users_high, birds, rects, bird, cd_bird, cd_pipes, cd_same,
                    pipes, pipe_timer,
                    next_pipe_frequency, level_2_reached, level_3_reached,
                    level_4_reached, background_color, ground_image, frame,
                    run, budget, horizon >>

Next == CheckLevel \/ ProcessInput \/ PauseBlock \/ ActiveBlock \/ GameOver

Spec == Init /\ [][Next]_vars

SpecLong == InitLong /\ [][Next]_vars

-----------------------------------------------------------------------------
(* running_loop from the middle of a game: the top of an iteration at score  *)
(* MidScore, a pipe about to enter the bird's column, the bird hovering or  *)
(* about to cross a screen boundary, 1 to 3 lives left, the pause menu     *)
(* open or not.  The player follows the default script from here.          *)

\* the score at which the runs start, and how many points further they go
MidScore == 295
MidTicks == 30

\* calls of Pipe.move the pipe has had: its left edge is one move away from
\* the bird's rectangle
MidMoves == 134
MidLag == 10

\* a pipe of height h after k calls of Pipe.move
PipeAt(h, k) ==
    [NewPipe(h) EXCEPT !.x = length - k * PIPE_SPEED,
                       !.top.x = length - k * PIPE_SPEED,
                       !.bottom.x = length - k * PIPE_SPEED]

\* y and speed (tenths) the last apply_gravity left: rising through the top
\* boundary, at the bottom of the hovering cycle, falling through the floor
MidBirds ==
    { [y |-> -3, speed |-> -36],
      [y |-> Tenths(width \div 2), speed |-> HoverSpeed],
      [y |-> Tenths(width - BirdSize) + 9, speed |-> 189] }

\* the pipes on the screen: one pipe, of any of three heights, that enters
\* the bird's column in the next tick or MidLag ticks later
MidPipeLists ==
    { << PipeAt(h, k) >> : h \in {MinPipeHeight, PassHeight, PIPE_HEIGHT},
                          k \in {MidMoves, MidMoves - MidLag} }

InitMid ==
    \E mb \in MidBirds, l \in 1..StartLives, p \in BOOLEAN :
      \E ps \in MidPipeLists :
        LET g == check_level_transition(NewGame(FreqLo, StoredHigh))
            b == g.birds[g.bird]
        IN  /\ running = g.running
            /\ game_started = TRUE
            /\ paused = p
            /\ current_score = MidScore
            /\ high_score = g.high_score
            /\ users_high = [g.users_high EXCEPT ![username] = Max(@, MidScore)]
            /\ birds = [g.birds EXCEPT ![g.bird].y = mb.y,
                                       ![g.bird].speed = mb.speed,
                                       ![g.bird].lives = l]
            /\ rects = [g.rects EXCEPT ![b.rect] = SetCenter(@, b.x, Trunc(mb.y))]
            /\ bird = g.bird
            /\ cd_bird = g.cd_bird
            /\ cd_pipes = ps
            /\ cd_same = g.cd_same
            /\ pipes = ps
            /\ pipe_timer = g.pipe_timer
            /\ next_pipe_frequency = g.next_pipe_frequency
            /\ level_2_reached = g.level_2_reached
            /\ level_3_reached = g.level_3_reached
            /\ level_4_reached = g.level_4_reached
            /\ background_color = g.background_color
            /\ ground_image = g.ground_image
            /\ pc = "level"
            /\ frame = [NoFrame EXCEPT !.active = ~p, !.lvl = current_lvl(MidScore)]
            /\ reported = NotReported
            /\ run = [hits |-> StartLives - l, survived |-> MidScore, streak |-> 0]
            /\ budget = 0
            /\ horizon = MidScore + MidTicks

SpecMid == InitMid /\ [][Next]_vars

-----------------------------------------------------------------------------
(* CollisionDetector.detect_collision on its own: a bird at one of the      *)
(* heights ProbeYs, up to two pipes that scroll past the bird's column by  *)
(* Game.move_pipes, and one call of the detector at any point of the       *)
(* scroll.                                                                 *)

\* bird heights (tenths) around the screen boundaries and at mid-screen
ProbeYs == {-12, -3, 0, 6, 5505, 6000, 11391, 11400, 11409}

\* pipe p after k calls of Pipe.move
RECURSIVE MoveTimes(_, _)
MoveTimes(p, k) == IF k = 0 THEN p ELSE move(MoveTimes(p, k - 1))

\* ticks between the two pipes of a pair
PairTicks == 23

\* no pipe, one new pipe, or a new pipe behind one that is PairTicks ahead
ProbePipeLists ==
    { << >> }
      \cup { << NewPipe(h) >> : h \in {100, 409, 410, 450, 570, 571, 600} }
      \cup { << MoveTimes(NewPipe(h1), PairTicks), NewPipe(h2) >> :
                 h1 \in {100, 450}, h2 \in {100, 450} }

InitDetect ==
    \E y \in ProbeYs, ps \in ProbePipeLists :
        LET g == NewGame(FreqLo, 0)
        IN  /\ running = g.running
            /\ game_started = TRUE
            /\ paused = g.paused
            /\ current_score = g.current_score
            /\ high_score = g.high_score
            /\ users_high = g.users_high
            /\ birds = [g.birds EXCEPT !["bird"].y = y]
            /\ rects = [g.rects EXCEPT !["bird"] = SetCenter(@, length \div 2, Trunc(y))]
            /\ bird = g.bird
            /\ cd_bird = g.cd_bird
            /\ cd_pipes = ps
            /\ cd_same = g.cd_same
            /\ pipes = ps
            /\ pipe_timer = g.pipe_timer
            /\ next_pipe_frequency = g.next_pipe_frequency
            /\ level_2_reached = g.level_2_reached
            /\ level_3_reached = g.level_3_reached
            /\ level_4_reached = g.level_4_reached
            /\ background_color = g.background_color
            /\ ground_image = g.ground_image
            /\ pc = "scroll"
            /\ frame = NoFrame
            /\ reported = NotReported
            /\ run = NewRun
            /\ budget = 0
            /\ horizon = 0

\* self.move_pipes(), until the last pipe has passed the bird's column
ScrollStep ==
    /\ pc = "scroll"
    /\ pipes # << >>
    /\ pipes[Len(pipes)].x + PIPE_WIDTH >= rects[birds[cd_bird].rect].x
    /\ pipes' = move_pipes(G).pipes
    /\ cd_pipes' = move_pipes(G).cd_pipes
    /\ cd_same' = move_pipes(G).cd_same
    /\ UNCHANGED << running, game_started, paused, current_score, high_score,
                    users_high, birds, rects, bird, cd_bird, pipe_timer,
                    next_pipe_frequency, level_2_reached, level_3_reached,
                    level_4_reached, background_color, ground_image, pc, frame,
                    reported, run, budget, horizon >>

\* the first two lines of check_collisions: the detector is given Game.pipes
\* and self.collision_detector.detect_collision() is called
DetectStep ==
    /\ pc = "scroll"
    /\ frame' = [frame EXCEPT !.collided = Detects(sync_pipes(G)),
                              !.stale = (cd_pipes # pipes)]
    /\ cd_pipes' = sync_pipes(G).cd_pipes
    /\ cd_same' = sync_pipes(G).cd_same
    /\ pc' = "detected"
    /\ UNCHANGED << running, game_started, paused, current_score, high_score,
                    users_high, birds, rects, bird, cd_bird, pipes, pipe_timer,
                    next_pipe_frequency, level_2_reached, level_3_reached,
                    level_4_reached, background_color, ground_image, reported,
                    run, budget, horizon >>

NextDetect == ScrollStep \/ DetectStep

SpecDetect == InitDetect /\ [][NextDetect]_vars

-----------------------------------------------------------------------------
(* Game.generate_pipes on its own: a game at one of the scores ProbeScores, *)
(* with the timer below or above the interval rolled last, and one call    *)
(* with any of the random draws.                                           *)

\* scores on both sides of the two thresholds of the difficulty ramp
ProbeScores == {0, 3999, 4000, 4001, 7000, 10000, 10001, 12000}

InitRoll ==
    \E sc \in ProbeScores, t \in {FreqLo, FreqLo + 1, TimerCap}, f \in {FreqLo, FreqHi} :
        LET g == NewGame(f, 0)
        IN  /\ running = g.running
            /\ game_started = TRUE
            /\ paused = g.paused
            /\ current_score = sc
            /\ high_score = g.high_score
            /\ users_high = g.users_high
            /\ birds = g.birds
            /\ rects = g.rects
            /\ bird = g.bird
            /\ cd_bird = g.cd_bird
            /\ cd_pipes = g.cd_pipes
            /\ cd_same = g.cd_same
            /\ pipes = g.pipes
            /\ pipe_timer = t
            /\ next_pipe_frequency = g.next_pipe_frequency
            /\ level_2_reached = g.level_2_reached
            /\ level_3_reached = g.level_3_reached
            /\ level_4_reached = g.level_4_reached
            /\ background_color = g.background_color
            /\ ground_image = g.ground_image
            /\ pc = "spawn"
            /\ frame = NoFrame
            /\ reported = NotReported
            /\ run = NewRun
            /\ budget = 0
            /\ horizon = 0

\* self.generate_pipes()
RollStep ==
    /\ pc = "spawn"
    /\ \E h  \in {MinPipeHeight, PassHeight, PIPE_HEIGHT},
          r1 \in {FreqLo, FreqHi},
          r2 \in {FreqMidLo, FreqMidHi},
          r3 \in {FreqTopLo, FreqTopHi} :
        LET g == generate_pipes(G, h, r1, r2, r3)
        IN  /\ Commit(g)
            /\ frame' = [frame EXCEPT !.spawned = (Len(g.pipes) > Len(pipes))]
    /\ pc' = "spawned"
    /\ UNCHANGED << reported, run, budget, horizon >>

SpecRoll == InitRoll /\ [][RollStep]_vars

-----------------------------------------------------------------------------
(* UserDatabase on its own: users.json holds any accounts of Names with     *)
(* high scores of StoredScores; get_high_score, update_high_score and      *)
(* create_account are called in any order.                                 *)

Names == {"alice", "bob"}
StoredScores == {0, 90, 150}
NewScores == {0, 90, 150, 151}

\* the accounts load_users may find
Stores == UNION { [D -> StoredScores] : D \in SUBSET Names }

\* frame of a database call: the method, its arguments, and what
\* get_high_score / create_account returned
NoCall == [call |-> "none", user |-> "", score |-> 0, returned |-> 0, created |-> FALSE]

InitDb ==
    \E st \in Stores :
        LET g == NewGame(FreqLo, 0)
        IN  /\ running = g.running
            /\ game_started = g.game_started
            /\ paused = g.paused
            /\ current_score = g.current_score
            /\ high_score = g.high_score
            /\ users_high = st
            /\ birds = g.birds
            /\ rects = g.rects
            /\ bird = g.bird
            /\ cd_bird = g.cd_bird
            /\ cd_pipes = g.cd_pipes
            /\ cd_same = g.cd_same
            /\ pipes = g.pipes
            /\ pipe_timer = g.pipe_timer
            /\ next_pipe_frequency = g.next_pipe_frequency
            /\ level_2_reached = g.level_2_reached
            /\ level_3_reached = g.level_3_reached
            /\ level_4_reached = g.level_4_reached
            /\ background_color = g.background_color
            /\ ground_image = g.ground_image
            /\ pc = "db"
            /\ frame = NoCall
            /\ reported = NotReported
            /\ run = NewRun
            /\ budget = 0
            /\ horizon = 0

\* db.get_high_score(user)
DbGet ==
    /\ pc = "db"
    /\ \E user \in Names :
        frame' = [NoCall EXCEPT !.call = "get_high_score", !.user = user,
                                !.returned = db_get_high_score(G, user)]
    /\ UNCHANGED << running, game_started, paused, current_score, high_score,
                    users_high, birds, rects, bird, cd_bird, cd_pipes, cd_same,
                    pipes, pipe_timer,
                    next_pipe_frequency, level_2_reached, level_3_reached,
                    level_4_reached, background_color, ground_image, pc,
                    reported, run, budget, horizon >>

\* db.update_high_score(user, new_score)
DbUpdate ==
    /\ pc = "db"
    /\ \E user \in Names, new_score \in NewScores :
        /\ users_high' = db_update_high_score(G, user, new_score).users_high
        /\ frame' = [NoCall EXCEPT !.call = "update_high_score", !.user = user,
                                   !.score = new_score]
    /\ UNCHANGED << running, game_started, paused, current_score, high_score,
                    birds, rects, bird, cd_bird, cd_pipes, cd_same,
                    pipes, pipe_timer,
                    next_pipe_frequency, level_2_reached, level_3_reached,
                    level_4_reached, background_color, ground_image, pc,
                    reported, run, budget, horizon >>

\* db.create_account(user, password)
DbCreate ==
    /\ pc = "db"
    /\ \E user \in Names :
        /\ users_high' = db_create_account(G, user).users_high
        /\ frame' = [NoCall EXCEPT !.call = "create_account", !.user = user,
                                   !.created = (user \notin DOMAIN users_high)]
    /\ UNCHANGED << running, game_started, paused, current_score, high_score,
                    birds, rects, bird, cd_bird, cd_pipes, cd_same,
                    pipes, pipe_timer,
                    next_pipe_frequency, level_2_reached, level_3_reached,
                    level_4_reached, background_color, ground_image, pc,
                    reported, run, budget, horizon >>

NextDb == DbGet \/ DbUpdate \/ DbCreate

SpecDb == InitDb /\ [][NextDb]_vars

-----------------------------------------------------------------------------
(* Bird.flap on its own: a bird with any of ProbeSpeeds as its vertical     *)
(* speed, at one of three heights, with 1 to 3 lives, started or not, and  *)
(* SPACE key-downs handled by Game.process_input with no apply_gravity in  *)
(* between.                                                                *)

\* vertical speeds (tenths) before the flap: just flapped, rising, at rest,
\* falling slowly, at the hovering flap, falling fast
ProbeSpeeds == {-90, -81, 0, 9, 99, 306}

\* heights (tenths): mid-screen, above it, near the floor
FlapYs == {5505, 6000, 11391}

\* how many SPACE key-downs are handled in a row
MaxFlaps == 3

InitFlap ==
    \E v \in ProbeSpeeds, y \in FlapYs, l \in 1..StartLives, st \in BOOLEAN :
        LET g == check_level_transition(NewGame(FreqLo, 0))
            b == g.birds[g.bird]
        IN  /\ running = g.running
            /\ game_started = st
            /\ paused = g.paused
            /\ current_score = g.current_score
            /\ high_score = g.high_score
            /\ users_high = g.users_high
            /\ birds = [g.birds EXCEPT ![g.bird].y = y,
                                       ![g.bird].speed = v,
                                       ![g.bird].lives = l]
            /\ rects = [g.rects EXCEPT ![b.rect] = SetCenter(@, b.x, Trunc(y))]
            /\ bird = g.bird
            /\ cd_bird = g.cd_bird
            /\ cd_pipes = g.cd_pipes
            /\ cd_same = g.cd_same
            /\ pipes = g.pipes
            /\ pipe_timer = g.pipe_timer
            /\ next_pipe_frequency = g.next_pipe_frequency
            /\ level_2_reached = g.level_2_reached
            /\ level_3_reached = g.level_3_reached
            /\ level_4_reached = g.level_4_reached
            /\ background_color = g.background_color
            /\ ground_image = g.ground_image
            /\ pc = "flap"
            /\ frame = NoFrame
            /\ reported = NotReported
            /\ run = NewRun
            /\ budget = 0
            /\ horizon = 0

\* Game.process_input reading one SPACE key-down: game_started is set and
\* self.bird.flap() is called
FlapStep ==
    /\ pc = "flap"
    /\ Len(frame.polled) < MaxFlaps
    /\ Commit(process_input(G, << "K_SPACE" >>))
    /\ frame' = [frame EXCEPT !.polled = Append(@, "K_SPACE")]
    /\ UNCHANGED << pc, reported, run, budget, horizon >>

SpecFlap == InitFlap /\ [][FlapStep]_vars

-----------------------------------------------------------------------------
(* Properties *)

Lives == birds[bird].lives

\* C1: the active bird's lives are always in 0..3, and lives = 0 only when
\* running is false and the loop has left its body for good.
C1_LivesInRange ==
    /\ Lives \in 0..3
    /\ Lives = 0 => (~running /\ pc \in {"over", "exited"})

\* C1 witness: the third life has been lost.
C1_Witness == Lives = 0 /\ run.hits = 3 /\ ~running

\* C2: an Active block whose collision check returns false raises the current
\* score by exactly 1.
C2_SurvivedTickScores ==
    [][ (pc = "active" /\ ~frame'.collided) => current_score' = current_score + 1 ]_vars

\* C2 witness: an Active block has just run without a collision.
C2_Witness == frame.active /\ ~frame.collided /\ current_score > 0

\* two rectangles have a pixel in common
BoxOverlap(a, b) ==
    /\ \E px \in a.x..(a.x + a.w - 1) : px >= b.x /\ px <= b.x + b.w - 1
    /\ \E py \in a.y..(a.y + a.h - 1) : py >= b.y /\ py <= b.y + b.h - 1

HitsAPipe ==
    \E i \in 1..Len(pipes) :
        \/ BoxOverlap(rects[birds[cd_bird].rect], pipes[i].top)
        \/ BoxOverlap(rects[birds[cd_bird].rect], pipes[i].bottom)

\* C3: detect_collision returns true exactly when the bird's box overlaps the
\* top or bottom rectangle of some pipe, or y < 0, or y > 1200 - 60.
C3_DetectIff ==
    pc = "detected" =>
        (frame.collided <=> ( \/ HitsAPipe
                              \/ birds[cd_bird].y < 0
                              \/ birds[cd_bird].y > 10 * (1200 - 60) ))

\* C3 witness: a call that returned true for a bird inside the screen
\* boundaries (a pipe was hit), after a pipe that was not hit.
C3_Witness ==
    /\ pc = "detected" /\ frame.collided
    /\ birds[cd_bird].y = 6000
    /\ Len(pipes) = 2
    /\ ~BoxOverlap(rects[birds[cd_bird].rect], pipes[1].top)
    /\ ~BoxOverlap(rects[birds[cd_bird].rect], pipes[1].bottom)

BandStage(score) ==
    IF score < 300 THEN 0
    ELSE IF score < 600 THEN 1
    ELSE IF score < 900 THEN 2
    ELSE IF score < 1200 THEN 0
    ELSE (score \div 300) % 3

StageColor(i) == IF i = 0 THEN "color1" ELSE IF i = 1 THEN "color2" ELSE "color3"
StageGround(i) == IF i = 0 THEN "iarba1" ELSE IF i = 1 THEN "flori" ELSE "fluturi"
StageBird(i) == IF i = 0 THEN "bird1" ELSE IF i = 1 THEN "bird2" ELSE "bird3"

\* C5: right after each level check the background, the ground image and the
\* active bird are those of stage (current_score // 300) mod 3.
C5_StageOfScore ==
    pc = "input" =>
        /\ background_color = StageColor(BandStage(current_score))
        /\ ground_image = StageGround(BandStage(current_score))
        /\ bird = StageBird(BandStage(current_score))

\* C5 witness: the level check at a score of at least 900, back in the base
\* stage.
C5_Witness == pc = "input" /\ current_score >= 900 /\ bird = "bird1"

\* C6 as stated: a level check makes a hand-off exactly when the stage index
\* differs from the one at the previous level check.
C6_Original ==
    pc = "input" => (frame.swapped <=> frame.lvl # frame.prev_lvl)

\* C6 amended: a level check makes a hand-off exactly when the stage index
\* differs from the one at the previous level check, or when it is the first
\* level check after the game was constructed or restarted by new-game.
C6_SwapOnCrossing ==
    pc = "input" => (frame.swapped <=> (frame.lvl # frame.prev_lvl \/ frame.fresh))

\* C6 witness: the hand-off at the wrap from stage 2 back to the base stage.
C6_Witness == pc = "input" /\ frame.swapped /\ frame.lvl = 0 /\ frame.prev_lvl = 2

\* C7 as stated: a hand-off leaves the active bird with the position, the
\* bounding box, the speed and the lives the outgoing bird had.
C7_HandOffPreserves ==
    [][ (pc = "level" /\ frame'.swapped) =>
            /\ birds'[bird'].x = birds[bird].x
            /\ birds'[bird'].y = birds[bird].y
            /\ rects'[birds'[bird'].rect] = rects[birds[bird].rect]
            /\ birds'[bird'].speed = birds[bird].speed
            /\ birds'[bird'].lives = birds[bird].lives ]_vars

\* C8 as stated: after an Active tick with a collision that leaves lives, the
\* bird is at mid-screen with speed zero, there are no pipes, the game is not
\* started and still running.
C8_SoftReset ==
    (frame.active /\ frame.collided /\ Lives # 0) =>
        /\ birds[bird].x = 1940 \div 2
        /\ birds[bird].y = 10 * (1200 \div 2)
        /\ birds[bird].speed = 0
        /\ pipes = << >>
        /\ ~game_started
        /\ running

\* C9: while the game is not started no step moves the bird or changes the
\* pipes, there are no pipes, and the score only changes when a new game
\* zeroes it; only a SPACE read by process_input sets game_started; pipes are
\* only added by the Active block, which runs only when the game is started
\* and not paused.
C9_IdleIsStill ==
    [][ /\ ~game_started =>
               /\ birds'[bird'].x = birds[bird].x
               /\ birds'[bird'].y = birds[bird].y
               /\ pipes = << >> /\ pipes' = << >>
               /\ \/ current_score' = current_score
                  \/ frame'.restarted /\ current_score' = 0
        /\ (~game_started /\ game_started') =>
               (pc = "input" /\ \E i \in 1..Len(frame'.polled) : frame'.polled[i] = "K_SPACE")
        /\ (Len(pipes') > Len(pipes)) =>
               (pc = "active" /\ game_started /\ ~paused) ]_vars

\* C9 witness: the game waits after a soft reset, the score already above 0.
C9_Witness ==
    ~game_started /\ ~paused /\ pc = "level" /\ current_score > 0 /\ Lives = 2

\* C10 as stated: a pause key read in Active pauses the game, and a resume key
\* read while the game is paused resumes it, at whichever polling point.
C10_ResumeNeverLost ==
    [][ /\ (pc = "input" /\ game_started /\ ~paused /\ frame'.polled = << "K_r" >>)
               => paused'
        /\ (pc \in {"input", "pause"} /\ paused /\ frame'.polled = << "K_r" >>)
               => ~paused' ]_vars

\* C11: a new-game input handled in the pause menu leaves the game idle and
\* fully reset: not started, not paused, running, score 0, three lives, the
\* bird at mid-screen with speed 0, no pipes, the base background and ground,
\* all level flags cleared; the in-memory and the stored high score are as
\* they were.
C11_NewGameResets ==
    [][ (pc = "pause" /\ frame'.polled = << "K_n" >>) =>
            /\ ~game_started' /\ ~paused' /\ running'
            /\ current_score' = 0
            /\ birds'[bird'].lives = 3
            /\ birds'[bird'].x = 1940 \div 2
            /\ birds'[bird'].y = 10 * (1200 \div 2)
            /\ birds'[bird'].speed = 0
            /\ rects'[birds'[bird'].rect] = [x |-> 940, y |-> 570, w |-> 60, h |-> 60]
            /\ pipes' = << >>
            /\ background_color' = "color1" /\ ground_image' = "iarba"
            /\ ~level_2_reached' /\ ~level_3_reached' /\ ~level_4_reached'
            /\ high_score' = high_score
            /\ users_high' = users_high
            /\ pc' = "level" ]_vars

\* C11 witness: a new game has just been started from the pause menu of a
\* game in which the stored high score was raised.
C11_Witness ==
    /\ frame.restarted /\ frame.polled = << "K_n" >> /\ pc = "level"
    /\ current_score = 0 /\ Lives = 3
    /\ users_high[username] > high_score

\* C12 as stated: the iteration whose process_input reads a window-close goes
\* straight to Over, and with running false the Active block changes neither
\* the pipes, the score, a bird nor the stored high score.
C12_QuitStopsTick ==
    [][ /\ (pc = "input" /\ HasEvent(frame'.polled, "QUIT")) => pc' = "over"
        /\ (pc = "active" /\ ~running) =>
               /\ pipes' = pipes
               /\ current_score' = current_score
               /\ birds' = birds
               /\ users_high' = users_high ]_vars

\* C13 as stated: once running is false it never becomes true again.
C13_OverIsTerminal ==
    [][ ~running => ~running' ]_vars

\* C14: the Active block spawns a pipe exactly when the time since the last
\* spawn exceeds the interval rolled then, at most one per tick; the new pipe
\* is the last of the list and (after the move of the same tick) one scroll
\* step left of the right screen edge, the timer restarts and the interval is
\* rolled again; without a spawn the interval stays and no pipe is added.
C14_SpawnByTimer ==
    [][ pc = "active" =>
            /\ frame'.spawned <=> pipe_timer > next_pipe_frequency
            /\ frame'.spawned =>
                   /\ pipe_timer' = IF frame'.save_failed THEN 0 ELSE 1000 \div 60
                   /\ next_pipe_frequency' \in 2500..4500
                   /\ ~frame'.collided =>
                          /\ Len(pipes') >= 1
                          /\ Len(pipes') <= Len(pipes) + 1
                          /\ pipes'[Len(pipes')].x = 1940 - 7
                          /\ pipes'[Len(pipes')].top.x = 1940 - 7
                          /\ pipes'[Len(pipes')].bottom.x = 1940 - 7
                          /\ \A i \in 1..(Len(pipes') - 1) :
                                 pipes'[i].x < pipes'[Len(pipes')].x
            /\ ~frame'.spawned =>
                   /\ next_pipe_frequency' = next_pipe_frequency
                   /\ Len(pipes') <= Len(pipes)
                   /\ pipe_timer' >= pipe_timer ]_vars

\* C14 witness: a second pipe has just been spawned behind one still on
\* screen.
C14_Witness ==
    frame.active /\ frame.spawned /\ ~frame.collided /\ Len(pipes) = 2

\* C15 as stated: every pipe of height g has top height g, bottom y g + 220
\* and bottom height 1200 - 220 - g.
C15_PipeGeometry ==
    \A i \in 1..Len(pipes) :
        /\ pipes[i].top.h = pipes[i].height
        /\ pipes[i].bottom.y = pipes[i].height + 220
        /\ pipes[i].bottom.h = 1200 - 220 - pipes[i].height

\* the gap of a pipe: from the lower edge of the top rectangle to the upper
\* edge of the bottom rectangle
GapStart(p) == p.top.y + p.top.h
GapSize(p) == p.bottom.y - (p.top.y + p.top.h)

\* C16 as stated: every pipe has gap size 220 and gap start in
\* [100, PIPE_HEIGHT - 220].
C16_Original ==
    \A i \in 1..Len(pipes) :
        /\ GapSize(pipes[i]) = 220
        /\ GapStart(pipes[i]) \in 100..(600 - 220)

\* C16 amended: every pipe has gap size 220 for its whole lifetime and a gap
\* start in [100, 600] (the range of random.randint(100, PIPE_HEIGHT), inside
\* [100, 1200 - 220]); a tick that only scrolls the pipes changes neither
\* the gap start nor the gap size of any of them.
C16_GapConstant ==
    [][ /\ \A i \in 1..Len(pipes') :
               /\ GapSize(pipes'[i]) = 220
               /\ GapStart(pipes'[i]) \in 100..600
               /\ GapStart(pipes'[i]) <= 1200 - 220
        /\ (pc = "active" /\ ~frame'.spawned /\ Len(pipes') = Len(pipes)) =>
               \A i \in 1..Len(pipes) :
                   /\ GapStart(pipes'[i]) = GapStart(pipes[i])
                   /\ GapSize(pipes'[i]) = GapSize(pipes[i])
                   /\ pipes'[i].x = pipes[i].x - 7 ]_vars

\* C16 witness: a pipe drawn with the largest gap start has been scrolled.
C16_Witness ==
    \E i \in 1..Len(pipes) : GapStart(pipes[i]) = 600 /\ pipes[i].x < 1940 - 7

\* C17 as stated: the interval rolled at a spawn is from [2500, 4500] up to
\* score 4000, from the tighter [2000, 3000] above 4000, and from the still
\* tighter [1500, 2500] above 10000.
C17_RampBands ==
    (pc = "spawned" /\ frame.spawned) =>
        /\ current_score <= 4000 => next_pipe_frequency \in 2500..4500
        /\ (current_score > 4000 /\ current_score <= 10000) =>
               next_pipe_frequency \in 2000..3000
        /\ current_score > 10000 => next_pipe_frequency \in 1500..2500

\* C18 as stated: a bird exactly on a screen boundary (y = 0 or
\* y = 1200 - 60) is a collision, with or without a pipe.
C18_BoundaryInclusive ==
    (pc = "detected" /\ birds[cd_bird].y \in {0, 10 * (1200 - 60)}) => frame.collided

\* C19: no step lowers the in-memory high score or the stored high score of
\* the player, and the stored one changes only to a score strictly larger
\* than it was.
C19_HighNeverDecreases ==
    [][ /\ high_score' >= high_score
        /\ DOMAIN users_high' = DOMAIN users_high
        /\ \A u \in DOMAIN users_high :
               /\ users_high'[u] >= users_high[u]
               /\ users_high'[u] # users_high[u] =>
                      (users_high'[u] = current_score' /\ current_score' > users_high[u]) ]_vars

\* C19 witness: after a new game an Active tick has offered the store a score
\* above the in-memory high score but below the stored one.
C19_Witness ==
    /\ frame.active
    /\ current_score > high_score
    /\ current_score < users_high["player"]

\* C20 as stated: with no entry for alice, get_high_score("alice") returns 0;
\* update_high_score("alice", 150) then makes alice's stored high score 150;
\* update_high_score("alice", 90) on a stored 150 leaves it 150.
C20_AliceScenario ==
    [][ /\ ("alice" \notin DOMAIN users_high
               /\ frame'.call = "get_high_score" /\ frame'.user = "alice")
           => frame'.returned = 0
        /\ ("alice" \notin DOMAIN users_high
               /\ frame'.call = "update_high_score" /\ frame'.user = "alice"
               /\ frame'.score = 150)
           => ("alice" \in DOMAIN users_high' /\ users_high'["alice"] = 150)
        /\ ("alice" \in DOMAIN users_high /\ users_high["alice"] = 150
               /\ frame'.call = "update_high_score" /\ frame'.user = "alice"
               /\ frame'.score = 90)
           => users_high'["alice"] = 150 ]_vars

\* how many of the three "reached" flags are set
FlagsSet ==
    (IF level_2_reached THEN 1 ELSE 0) + (IF level_3_reached THEN 1 ELSE 0)
        + (IF level_4_reached THEN 1 ELSE 0)

\* C21 as stated: in every state exactly one of the three "reached" flags is
\* true.
C21_Original == FlagsSet = 1

\* C21 amended: at most one "reached" flag is true in every state; none is
\* true from construction or a new-game reset until the next level check, and
\* exactly one is true from then on.
C21_OneFlag ==
    /\ FlagsSet <= 1
    /\ frame.restarted => FlagsSet = 0
    /\ ~frame.restarted => FlagsSet = 1

\* C21 witness: in the third stage only level_3_reached is set.
C21_Witness ==
    current_score >= 600 /\ level_3_reached /\ ~level_2_reached /\ ~level_4_reached

\* C22 as stated: a high-score write that fails in an Active tick does not
\* end the loop: running is still true and the loop goes on to its next
\* iteration.
C22_SaveFailureSurvived ==
    frame.save_failed => (running /\ pc = "level")

\* C23: the active bird's lives decrease only in an Active tick whose
\* collision check returns true, and then by exactly 1 however many pipe
\* rectangles and screen boundaries are hit; level checks (hand-offs), input
\* handling (flaps), the pause menu short of a new game, and non-colliding
\* Active ticks leave lives unchanged; only a new game raises them, to 3.
C23_LifePerCollidingTick ==
    [][ /\ (pc = "active" /\ frame'.collided) => Lives' = Lives - 1
        /\ (pc = "active" /\ ~frame'.collided) => Lives' = Lives
        /\ pc \in {"level", "input", "over"} => Lives' = Lives
        /\ (pc = "pause" /\ ~frame'.restarted) => Lives' = Lives
        /\ (pc = "pause" /\ frame'.restarted) => Lives' = StartLives
      ]_vars

\* C23 witness: an Active tick that hit two things at once (a pipe rectangle
\* and a screen boundary) has taken the second life, and only that one.
C23_Witness ==
    /\ frame.active /\ frame.collided /\ frame.touched >= 2
    /\ run.hits = 2 /\ Lives = 1
    /\ ~game_started /\ running

\* the active level stage: theme, ground, active bird and the three flags
Stage ==
    << background_color, ground_image, bird,
       level_2_reached, level_3_reached, level_4_reached >>

\* C24: an Active tick that collides with lives remaining (soft reset) leaves
\* the current score, the high score (the game's and the stored one) and the
\* active level stage unchanged; the current score decreases only in a
\* new-game reset, which sets it to 0, and never otherwise.
C24_SoftResetKeepsScore ==
    [][ /\ (pc = "active" /\ frame'.collided /\ Lives' > 0) =>
               /\ current_score' = current_score
               /\ high_score' = high_score
               /\ users_high' = users_high
               /\ Stage' = Stage
        /\ current_score' < current_score =>
               (pc = "pause" /\ frame'.restarted /\ current_score' = 0)
        /\ (pc = "pause" /\ frame'.restarted) => current_score' = 0
      ]_vars

\* C24 witness: a soft reset (collision, lives remaining, no pipes, not
\* started) in the second stage, with score and stage still standing.
C24_Witness ==
    /\ frame.active /\ frame.collided /\ Lives = 2 /\ run.hits = 1
    /\ ~game_started /\ pipes = << >>
    /\ current_score > level_threshold
    /\ bird = "bird2" /\ level_2_reached /\ background_color = "color2"

\* C25: in every state between two steps of the loop the detector's bird is
\* the active bird (the one process_input flaps, apply_gravity moves and
\* reduce_life charges), its rectangle is that bird's rectangle, and the
\* detector's pipe list is Game.pipes itself, after every hand-off, soft
\* reset and new game; so every collision check tests the current actor and
\* the current pipes.
C25_DetectorTestsCurrent ==
    /\ cd_bird = bird
    /\ birds[cd_bird].rect = birds[bird].rect
    /\ cd_same
    /\ cd_pipes = pipes

\* C25 witness: after the second hand-off, an Active tick in which move_pipes
\* dropped a pipe, so that the detector's list was out of date until
\* check_collisions replaced it.
C25_Witness ==
    /\ frame.active /\ frame.stale /\ frame.pruned = 1
    /\ bird = "bird3" /\ cd_bird = "bird3"
    /\ pipes # << >>

\* C26 as stated: the level-stage check belongs to the Active tick, after its
\* score update and before its persistence check; so when an Active tick has
\* ended (and in particular when its score has been written to the store)
\* theme, ground and active bird are those of the stage of the score that
\* tick produced.
C26_LevelCheckInTick ==
    (frame.active /\ pc \in {"level", "over"}) =>
        /\ background_color = StageColor(BandStage(current_score))
        /\ ground_image = StageGround(BandStage(current_score))
        /\ bird = StageBird(BandStage(current_score))

\* C27 as stated: on every path on which the session ends, a quit in the
\* pause menu included, the loop has passed through Over and the game-over
\* screen has reported the final score and the high score.
C27_QuitReports ==
    pc = "exited" =>
        /\ reported.shown
        /\ reported.final = current_score
        /\ reported.high = Max(high_score, current_score)

\* C28 as stated: a step of the loop that starts and ends paused, and is not
\* a new game, changes neither the active bird's position, vertical speed
\* and lives, nor the current score, the pipes or the started flag, whatever
\* input it reads.
C28_PausedIsSuspended ==
    [][ (paused /\ paused' /\ ~frame'.restarted) =>
            /\ birds'[bird'].x = birds[bird].x
            /\ birds'[bird'].y = birds[bird].y
            /\ birds'[bird'].speed = birds[bird].speed
            /\ birds'[bird'].lives = birds[bird].lives
            /\ current_score' = current_score
            /\ pipes' = pipes
            /\ game_started' = game_started
      ]_vars

\* pipe p moved left by the scroll speed
Scrolled(p) == [p EXCEPT !.x = @ - 7, !.top.x = @ - 7, !.bottom.x = @ - 7]

\* the indices, in order, of the pipes of ps whose right edge is still at or
\* right of x = 0 after the scroll
KeptIdx(ps) ==
    LET stays(i) == ps[i].x - 7 + ps[i].width >= 0
    IN  SelectSeq([i \in 1..Len(ps) |-> i], stays)

\* C29: an Active tick that does not end in a soft reset leaves exactly the
\* pipes whose right edge x + width is >= 0 after moving left by 7, each
\* moved by exactly 7 (both rectangles with it), in their former order, with
\* the pipe spawned in that tick, if any, behind them; a pipe is dropped iff
\* x + width < 0.  No pipe with x + width < 0 is ever in the list.
C29_ScrollAndPrune ==
    [][ /\ \A i \in 1..Len(pipes') : pipes'[i].x + pipes'[i].width >= 0
        /\ (pc = "active" /\ (~frame'.collided \/ Lives' = 0)) =>
             LET idx == KeptIdx(pipes)
                 m   == Len(pipes') - (IF frame'.spawned THEN 1 ELSE 0)
             IN  /\ m = Len(idx)
                 /\ \A j \in 1..m : pipes'[j] = Scrolled(pipes[idx[j]])
                 /\ frame'.pruned = Len(pipes) - Len(idx)
      ]_vars

\* C29 witness: the tick that dropped the pipe in front, whose right edge had
\* passed x = 0, and kept the one behind it, 7 further left.
C29_Witness ==
    /\ frame.active /\ ~frame.collided /\ frame.pruned = 1
    /\ Len(pipes) >= 1
    /\ pipes[1].x < 1940 - 7
    /\ pipes[1].top.x = pipes[1].x /\ pipes[1].bottom.x = pipes[1].x

\* C30: a flap sets the active bird's vertical speed to -9 whatever it was
\* before and leaves its position, its rectangle and its lives unchanged; so
\* after any number of flaps in a row the speed is -9, as after one.
C30_FlapOverrides ==
    [][ pc = "flap" =>
            /\ birds'[bird'].speed = -90
            /\ bird' = bird
            /\ birds'[bird'].x = birds[bird].x
            /\ birds'[bird'].y = birds[bird].y
            /\ birds'[bird'].lives = birds[bird].lives
            /\ rects' = rects
      ]_vars

\* C30 witness: three flaps in a row on a bird that is not at mid-screen and
\* has lost a life; its speed is that of a single flap.
C30_Witness ==
    /\ pc = "flap" /\ Len(frame.polled) = 3
    /\ birds[bird].speed = -90
    /\ birds[bird].y = 11391 /\ Lives = 2

\* C31: as long as no store write has failed, the logged-in user's stored
\* high score is at least the current score and at least the high score the
\* session started with, and every step leaves it at the maximum of its
\* former value and the new current score (so it is always the maximum of the
\* value at session start and the highest current score reached); it changes
\* only in an Active tick whose current score exceeds the in-memory high
\* score.
C31_StoredHighTracksScore ==
    [][ (pc # "crashed" /\ pc' # "crashed") =>
            /\ users_high[username] >= current_score
            /\ users_high'[username] >= current_score'
            /\ users_high'[username] >= high_score'
            /\ users_high'[username] = Max(users_high[username], current_score')
            /\ users_high'[username] # users_high[username] =>
                   (pc = "active" /\ current_score' > high_score)
      ]_vars

\* C31 witness: in a game restarted after the stored high score had been
\* raised, an Active tick has ended with the current score above the
\* session's starting high score and below the stored one, and nothing was
\* written.
C31_Witness ==
    /\ frame.active /\ ~frame.collided /\ ~frame.save_failed /\ pc = "level"
    /\ high_score = StoredHigh
    /\ current_score = high_score + 1
    /\ users_high[username] > current_score

\* the Active block is about to run for the first time since the loop was
\* armed: no Active tick yet in this game, or the last one collided
FirstTick == pc = "active" /\ (run.streak >= 1 \/ run.hits + run.survived = 0)

\* C32: the first Active tick after arming (at game start, after a new game,
\* after a soft reset) finds the bird at the screen centre with the speed of
\* a flap and no pipe on the screen, detects no collision, takes no life and
\* scores, and a pipe it spawns is at the right edge; so colliding ticks are
\* never consecutive and every life loss is preceded by a scoring tick of its
\* own.
C32_FirstTickSurvives ==
    [][ /\ FirstTick =>
               /\ pipes = << >>
               /\ birds[bird].x = 1940 \div 2
               /\ birds[bird].y = 10 * (1200 \div 2)
               /\ birds[bird].speed = -90
               /\ rects[birds[bird].rect] = [x |-> 940, y |-> 570, w |-> 60, h |-> 60]
               /\ ~frame'.collided
               /\ frame'.touched = 0
               /\ birds'[bird'].lives = birds[bird].lives
               /\ current_score' = current_score + 1
               /\ frame'.spawned => (Len(pipes') = 1 /\ pipes'[1].x = 1940 - 7)
        /\ (pc = "active" /\ frame'.collided) =>
               /\ run.streak = 0
               /\ run.survived > run.hits
        /\ run'.streak <= 1
        /\ run'.survived >= run'.hits
      ]_vars

\* C32 witness: the first Active tick after the second soft reset has
\* spawned a pipe at the right edge, survived and scored.
C32_Witness ==
    /\ frame.active /\ ~frame.collided /\ frame.spawned
    /\ run.hits = 2 /\ run.streak = 0 /\ Lives = 1
    /\ birds[bird].y = 6000 - 90
    /\ Len(pipes) = 1 /\ pipes[1].x = 1940 - 7
    /\ current_score >= 3

====
